---- MODULE Spec2Model ----
(***************************************************************************)
(* A model of @mixer/postmessage-rpc: the Reorder buffer (src/reorder.ts)  *)
(* and the RPC engine (src/rpc.ts) running in browser windows that talk    *)
(* over postMessage, which delivers every message once, in any order.      *)
(***************************************************************************)
EXTENDS Integers, Sequences, FiniteSets, TLC

(***************************************************************************)
(* Bounds of the model.                                                    *)
(***************************************************************************)
\* longest run of counters fed to a lone Reorder buffer
MaxRun == 4
\* highest initial lastSequentialCall of a lone Reorder buffer
MaxBase == 1
\* what user code does after construction (call, expose, destroy, reload,
\* a second application on the transport), over all engines
MaxUser == 2
\* the same budget where progress is checked
MaxLiveUser == 1
\* the exposes and calls of user code where one engine serves the other
MaxServeUser == 3

(***************************************************************************)
(* JavaScript values carried by packets.  A payload (params or result) is  *)
(* undefined, null, NaN or an object; only an object's protocolVersion and *)
(* an opaque tag are kept.                                                 *)
(***************************************************************************)
Undefined == [k |-> "undefined", protocolVersion |-> "undefined", tag |-> ""]
Null == [k |-> "null", protocolVersion |-> "undefined", tag |-> ""]
NaN == [k |-> "NaN", protocolVersion |-> "undefined", tag |-> ""]
Obj(tag) == [k |-> "object", protocolVersion |-> "undefined", tag |-> tag]
Version(v) == [k |-> "object", protocolVersion |-> v, tag |-> ""]

\* the wire error of a reply; absent when the reply is a success
NoError == [k |-> "undefined", code |-> 0, message |-> "", path |-> "undefined"]
WireError(code, message, path) ==
    [k |-> "object", code |-> code, message |-> message, path |-> path]

magicReadyCallId == -1

(***************************************************************************)
(* Packets: IRPCMethod and IRPCReply with the counter post() stamps.  The  *)
(* field g is not on the wire: it names the engine, the session and the    *)
(* send that produced the packet, and the call a reply answers.            *)
(***************************************************************************)
NoGhost == [from |-> "", inc |-> 0, epoch |-> 0, n |-> 0, re |-> <<>>]

MethodPacket(serviceID, id, method, params, discard) ==
    [type |-> "method", serviceID |-> serviceID, id |-> id, method |-> method,
     params |-> params, discard |-> discard, result |-> Undefined,
     error |-> NoError, counter |-> -1, g |-> NoGhost]

ReplyPacket(serviceID, id, result, error) ==
    [type |-> "reply", serviceID |-> serviceID, id |-> id, method |-> "",
     params |-> Undefined, discard |-> FALSE, result |-> result,
     error |-> error, counter |-> -1, g |-> NoGhost]

(***************************************************************************)
(* Reorder (src/reorder.ts).  The buffer is the record                     *)
(* [lastSequentialCall, queue].                                            *)
(***************************************************************************)
NewReorder == [lastSequentialCall |-> -1, queue |-> <<>>]

\* replayQueue moves the head of the queue to the list while it is in sequence
RECURSIVE replayQueue(_, _)
replayQueue(r, list) ==
    IF Len(r.queue) = 0 THEN [reorder |-> r, list |-> list]
    ELSE LET next == Head(r.queue) IN
         IF next.counter > r.lastSequentialCall + 1
         THEN [reorder |-> r, list |-> list]
         ELSE replayQueue([lastSequentialCall |-> next.counter,
                           queue |-> Tail(r.queue)],
                          list \o <<next>>)

\* a faulty SpliceIndex: the packet is pushed at the end, the queue is not sorted
SpliceIndexPush(queue, packet) == Len(queue) + 1

\* the first index whose packet has a greater counter, Len + 1 when none has
SpliceIndex(queue, packet) ==
    LET later == {i \in 1..Len(queue) : queue[i].counter > packet.counter} IN
    IF later = {} THEN Len(queue) + 1
    ELSE CHOOSE i \in later : \A j \in later : i <= j

InsertAt(queue, i, packet) ==
    SubSeq(queue, 1, i - 1) \o <<packet>> \o SubSeq(queue, i, Len(queue))

\* the baseline a "ready" method packet sets before the sequence test
ReadyBaseline(r, packet) ==
    IF packet.type = "method" /\ packet.method = "ready"
    THEN packet.counter - 1
    ELSE r.lastSequentialCall

\* a faulty InSequence: only the very next counter is in sequence
InSequenceNext(last, packet) == packet.counter = last + 1

\* the sequence test of append
InSequence(last, packet) == packet.counter <= last + 1

\* a faulty append: a released packet does not become the baseline
appendKeepingBaseline(r, packet) ==
    LET last == ReadyBaseline(r, packet) IN
    IF InSequence(last, packet)
    THEN replayQueue([lastSequentialCall |-> last, queue |-> r.queue], <<packet>>)
    ELSE [reorder |-> [lastSequentialCall |-> last,
                       queue |-> InsertAt(r.queue, SpliceIndex(r.queue, packet),
                                          packet)],
          list |-> <<>>]

\* a faulty append: a packet that is queued is also returned at once
appendListingQueued(r, packet) ==
    LET last == ReadyBaseline(r, packet) IN
    IF InSequence(last, packet)
    THEN replayQueue([lastSequentialCall |-> packet.counter, queue |-> r.queue],
                     <<packet>>)
    ELSE [reorder |-> [lastSequentialCall |-> last,
                       queue |-> InsertAt(r.queue, SpliceIndex(r.queue, packet),
                                          packet)],
          list |-> <<packet>>]

\* append: the packets good to send out, and the buffer afterwards
append(r, packet) ==
    LET last == ReadyBaseline(r, packet) IN
    IF InSequence(last, packet)
    THEN replayQueue([lastSequentialCall |-> packet.counter, queue |-> r.queue],
                     <<packet>>)
    ELSE [reorder |-> [lastSequentialCall |-> last,
                       queue |-> InsertAt(r.queue, SpliceIndex(r.queue, packet),
                                          packet)],
          list |-> <<>>]

\* reset: the packet's counter is the new baseline, the pending queue is dropped
reset(r, counter) == [lastSequentialCall |-> counter, queue |-> <<>>]

(***************************************************************************)
(* The windows and the engines.  A lives in window W1 and talks to W2; B   *)
(* and C live in W2 and talk to W1.  A and B share the service identity    *)
(* "foo"; C is another application on the same transport.                  *)
(***************************************************************************)
Engines == {"A", "B", "C"}

Options(e) ==
    CASE e = "A" -> [serviceId |-> "foo", receiver |-> "W1", target |-> "W2",
                     origin |-> "w2.example", protocolVersion |-> "undefined"]
      [] e = "B" -> [serviceId |-> "foo", receiver |-> "W2", target |-> "W1",
                     origin |-> "undefined", protocolVersion |-> "1.1"]
      [] OTHER   -> [serviceId |-> "bar", receiver |-> "W2", target |-> "W1",
                     origin |-> "*", protocolVersion |-> ""]

WindowOrigin(w) == IF w = "W1" THEN "w1.example" ELSE "w2.example"

\* x || y of JavaScript, for option strings: undefined and "" are falsy
OrElse(x, y) == IF x = "undefined" \/ x = "" THEN y ELSE x

\* the methods user code exposes and calls
UserMethods == {"foo"}
Methods == UserMethods \cup {"ready"}

\* what an exposed user handler does when invoked
HandlerKinds ==
    {"return", "async", "throwRPC", "throwError", "throwUndefined", "reject"}
SyncKinds == {"return", "throwRPC", "throwError", "throwUndefined"}
ThrowKinds == {"throwRPC", "throwError", "throwUndefined"}
\* err.stack of undefined throws inside the catch callback: the chain ends
\* rejected and its last callback, the one that posts, never runs
LostKinds == {"throwUndefined"}

(***************************************************************************)
(* The state of one engine: the fields of RPC, then the history kept for   *)
(* the properties (inc .. outbox).                                         *)
(***************************************************************************)
NoPacket == MethodPacket("", 0, "", Undefined, FALSE)

\* the record kept of the last message event: what the listener made of it,
\* which packet it was, lastSequentialCall before it, whether it was accepted
\* as a handshake signal and with which version, and whether the event
\* accepted before it was a "ready" call below the baseline (and its counter)
NoEvent == [verdict |-> "none", from |-> "", n |-> 0, counter |-> -1,
            method |-> "", before |-> -1, signal |-> FALSE,
            version |-> "undefined", afterReady |-> FALSE, readyCounter |-> -1,
            dropped |-> 0]

NewEngine(inc) ==
    [life |-> "live",
     callCounter |-> 0,
     calls |-> {},                     \* {[id, h]}: the ledger, one entry per id
     reorder |-> NewReorder,
     remoteProtocolVersion |-> "undefined",
     isReady |-> FALSE,                \* the isReady promise is resolved
     handlers |-> [m \in Methods |-> 0], \* listeners registered per method
     tasks |-> {},                     \* handler promise chains yet to post
     nTasks |-> 0,                     \* promise chains started so far
     inc |-> inc,                      \* which construction in this window
     epoch |-> 0,                      \* resets of callCounter so far
     nSent |-> 0,                      \* packets posted so far
     first |-> NoPacket,               \* the first packet posted
     dispatched |-> {},                \* the packets dispatched
     promises |-> {},                  \* the promises call() returned
     invoked |-> {},                   \* the handler invocations so far
     replies |-> {},                   \* the replies posted so far
     accepted |-> 0,                   \* handshake signals accepted
     nHeard |-> 0,                     \* packets the listener let through
     threw |-> 0,                      \* listener runs ended by an exception
     resetAt |-> 0,                    \* nSent when callCounter was last reset
     gone |-> FALSE,                   \* destroy() was called
     lastEvent |-> NoEvent,            \* the last message event heard
     outbox |-> <<>>]                  \* posted in the current step

NoEngine == [NewEngine(0) EXCEPT !.life = "none"]

(***************************************************************************)
(* JSON.stringify followed by JSON.parse: NaN becomes null, an undefined   *)
(* property is left out and reads back as undefined.                       *)
(***************************************************************************)
JsonValue(v) == IF v.k = "NaN" THEN Null ELSE v

stringify(message) ==
    [message EXCEPT !.params = JsonValue(@), !.result = JsonValue(@)]

\* a faulty post: every packet uses up two counter values
postSkippingCounter(e, s, message) ==
    LET packet == [message EXCEPT
                     !.counter = s.callCounter,
                     !.g = [@ EXCEPT !.from = e, !.inc = s.inc,
                                     !.epoch = s.epoch, !.n = s.nSent + 1]]
        ev == [to |-> Options(e).target,
               origin |-> WindowOrigin(Options(e).receiver),
               text |-> "json",
               data |-> stringify(packet)]
    IN [s EXCEPT !.callCounter = @ + 2,
                 !.nSent = @ + 1,
                 !.replies = IF message.type = "reply"
                             THEN @ \cup {[inv |-> message.g.re, n |-> s.nSent + 1,
                                           id |-> message.id,
                                           result |-> JsonValue(message.result),
                                           error |-> message.error]}
                             ELSE @,
                 !.first = IF s.nSent = 0 THEN ev.data ELSE @,
                 !.outbox = Append(@, ev)]

\* post: stamp the counter, count it, hand the text to the target window
post(e, s, message) ==
    LET packet == [message EXCEPT
                     !.counter = s.callCounter,
                     !.g = [@ EXCEPT !.from = e, !.inc = s.inc,
                                     !.epoch = s.epoch, !.n = s.nSent + 1]]
        ev == [to |-> Options(e).target,
               origin |-> WindowOrigin(Options(e).receiver),
               text |-> "json",
               data |-> stringify(packet)]
    IN [s EXCEPT !.callCounter = @ + 1,
                 !.nSent = @ + 1,
                 !.replies = IF message.type = "reply"
                             THEN @ \cup {[inv |-> message.g.re, n |-> s.nSent + 1,
                                           id |-> message.id,
                                           result |-> JsonValue(message.result),
                                           error |-> message.error]}
                             ELSE @,
                 !.first = IF s.nSent = 0 THEN ev.data ELSE @,
                 !.outbox = Append(@, ev)]

\* a faulty CallId: the handshake call takes the counter like any other call
CallIdCounter(s, method) == s.callCounter

\* a faulty CallId: every call takes the id of the handshake call
CallIdSentinel(s, method) == magicReadyCallId

\* the id call() gives a packet
CallId(s, method) == IF method = "ready" THEN magicReadyCallId ELSE s.callCounter

\* call: post a method packet and, when a reply is awaited, enter it in the ledger
call(e, s, method, params, waitForReply) ==
    LET id == CallId(s, method)
        packet == MethodPacket(Options(e).serviceId, id, method, params, ~waitForReply)
        s1 == post(e, s, packet)
        h == s1.nSent
    IN IF ~waitForReply THEN s1
       ELSE [s1 EXCEPT
               !.calls = {c \in @ : c.id # id} \cup {[id |-> id, h |-> h]},
               !.promises = @ \cup {[h |-> h, id |-> id, state |-> "pending",
                                     value |-> Undefined, error |-> NoError]}]

\* expose: one more listener for the method
expose(s, method) == [s EXCEPT !.handlers[method] = @ + 1]

\* the constructor: subscribe, expose "ready" and call "ready"
LocalVersion(e) == Version(OrElse(Options(e).protocolVersion, "1.0"))

\* a faulty constructor: "ready" is exposed and never called
constructorSilent(e, inc) == expose(NewEngine(inc), "ready")

constructor(e, inc) ==
    call(e, expose(NewEngine(inc), "ready"), "ready", LocalVersion(e), TRUE)

\* the promise of the constructor's own call: its completion resolves isReady
ReadyPromise == 1

\* objToError: the RPCError a wire error is turned into
objToError(obj) ==
    [k |-> "RPCError", code |-> obj.code, message |-> obj.message, path |-> obj.path]

\* a faulty handleReply: the reply to the constructor's call leaves isReady unset
handleReplyNotReady(s, packet) ==
    LET hit == {c \in s.calls : c.id = packet.id} IN
    IF hit = {} THEN s
    ELSE LET c == CHOOSE c \in hit : TRUE
             done(p) == IF packet.error.k = "object"
                        THEN [p EXCEPT !.state = "rejected",
                                       !.error = objToError(packet.error)]
                        ELSE [p EXCEPT !.state = "resolved",
                                       !.value = packet.result]
         IN [s EXCEPT
               !.promises = {IF p.h = c.h /\ p.state = "pending" THEN done(p) ELSE p
                             : p \in @},
               !.calls = @ \ hit]

\* a faulty handleReply: the entry that was fired stays in the ledger
handleReplyKeepingEntry(s, packet) ==
    LET hit == {c \in s.calls : c.id = packet.id} IN
    IF hit = {} THEN s
    ELSE LET c == CHOOSE c \in hit : TRUE
             done(p) == IF packet.error.k = "object"
                        THEN [p EXCEPT !.state = "rejected",
                                       !.error = objToError(packet.error)]
                        ELSE [p EXCEPT !.state = "resolved",
                                       !.value = packet.result]
         IN [s EXCEPT
               !.promises = {IF p.h = c.h /\ p.state = "pending" THEN done(p) ELSE p
                             : p \in @},
               !.isReady = @ \/ c.h = ReadyPromise]

\* handleReply: complete and remove the ledger entry of the reply's id, if any
handleReply(s, packet) ==
    LET hit == {c \in s.calls : c.id = packet.id} IN
    IF hit = {} THEN s
    ELSE LET c == CHOOSE c \in hit : TRUE
             done(p) == IF packet.error.k = "object"
                        THEN [p EXCEPT !.state = "rejected",
                                       !.error = objToError(packet.error)]
                        ELSE [p EXCEPT !.state = "resolved",
                                       !.value = packet.result]
         IN [s EXCEPT
               !.promises = {IF p.h = c.h /\ p.state = "pending" THEN done(p) ELSE p
                             : p \in @},
               !.isReady = @ \/ c.h = ReadyPromise,
               !.calls = @ \ hit]

isReadySignal(packet) ==
    \/ packet.type = "method" /\ packet.method = "ready"
    \/ packet.type = "reply" /\ packet.id = magicReadyCallId

\* stands for a counter that is missing or is not a number
NoCounter == -2

isRPCMessage(data) == data.type \in {"method", "reply"} /\ data.counter # NoCounter


(***************************************************************************)
(* Handlers.  An invocation is named by the packet that caused it and the  *)
(* listener that ran: <<from, inc, n, listener>>.                          *)
(***************************************************************************)
Invocation(p, l) == <<p.g.from, p.g.inc, p.g.n, l>>

\* RPCError.toReplyError
toReplyError(err) == WireError(err.code, err.message, err.path)

\* the reply the promise chain of expose builds from what the handler did
HandlerReply(e, data, kind, value) ==
    LET reply(result, error) == ReplyPacket(Options(e).serviceId, data.id, result, error)
    IN CASE kind = "return" -> reply(value, NoError)
         [] kind = "async" -> reply(NaN, NoError)
         [] kind = "throwRPC" ->
              reply(Undefined, toReplyError([code |-> 1234, message |-> "oh no!",
                                             path |-> "undefined"]))
         [] kind = "reject" ->
              reply(Undefined, toReplyError([code |-> 1234, message |-> "oh no!",
                                             path |-> "a.b"]))
         [] OTHER -> reply(Undefined, WireError(0, "Error: boom", "undefined"))

\* a faulty listener of expose: a discarded call is answered like any other
ExposedListenerReplying(e, s, data, l, kind, value) ==
    LET s1 == [s EXCEPT !.invoked = @ \cup {[inv |-> Invocation(data, l),
                                             method |-> data.method,
                                             id |-> data.id,
                                             discard |-> data.discard,
                                             kind |-> kind]}]
    IN IF kind \in LostKinds THEN [s |-> s1, threw |-> FALSE]
       ELSE [s |-> [s1 EXCEPT !.tasks = @ \cup
                      {[packet |-> [HandlerReply(e, data, kind, value) EXCEPT
                                      !.g.re = Invocation(data, l)],
                        sync |-> kind \in SyncKinds,
                        ord |-> s.nTasks + 1]},
                      !.nTasks = @ + 1],
             threw |-> FALSE]

\* the listener expose registers, run for listener l of the packet's method:
\* a discarded call only runs the handler, any other call starts the promise
\* chain that posts the reply.  [s, threw]: threw when the handler's exception
\* left the listener.
ExposedListener(e, s, data, l, kind, value) ==
    LET s1 == [s EXCEPT !.invoked = @ \cup {[inv |-> Invocation(data, l),
                                             method |-> data.method,
                                             id |-> data.id,
                                             discard |-> data.discard,
                                             kind |-> kind]}]
    IN IF data.discard
       THEN [s |-> s1, threw |-> kind \in ThrowKinds]
       ELSE IF kind \in LostKinds THEN [s |-> s1, threw |-> FALSE]
       ELSE [s |-> [s1 EXCEPT !.tasks = @ \cup
                      {[packet |-> [HandlerReply(e, data, kind, value) EXCEPT
                                      !.g.re = Invocation(data, l)],
                        sync |-> kind \in SyncKinds,
                        ord |-> s.nTasks + 1]},
                      !.nTasks = @ + 1],
             threw |-> FALSE]

\* emit(method, packet): the listeners of the method run in turn until one throws
RECURSIVE EmitMethod(_, _, _, _, _)
EmitMethod(e, s, data, l, hk) ==
    IF l > s.handlers[data.method] THEN [s |-> s, threw |-> FALSE]
    ELSE LET ran == IF data.method = "ready"
                    THEN ExposedListener(e, [s EXCEPT !.isReady = TRUE], data, l,
                                         "return", LocalVersion(e))
                    ELSE ExposedListener(e, s, data, l, hk, Obj("r"))
         IN IF ran.threw THEN ran ELSE EmitMethod(e, ran.s, data, l + 1, hk)

\* a faulty UnknownMethod: the reply does not name the method
UnknownMethodUnnamed(e, packet) ==
    ReplyPacket(Options(e).serviceId, packet.id, Null,
                WireError(4003, "Unknown method name", "undefined"))

UnknownMethod(e, packet) ==
    ReplyPacket(Options(e).serviceId, packet.id, Null,
                WireError(4003, "Unknown method name \"" \o packet.method \o "\"",
                           "undefined"))

\* the session a packet was posted in: the sender's counter ran without a reset
Session(g) == <<g.from, g.inc, g.epoch>>

\* the record kept of a dispatch; late: a packet of the same session with the
\* same or a higher counter was dispatched before it
Dispatch(s, packet) ==
    [from |-> packet.g.from, inc |-> packet.g.inc, epoch |-> packet.g.epoch,
     n |-> packet.g.n, counter |-> packet.counter, type |-> packet.type,
     id |-> packet.id, method |-> packet.method, discard |-> packet.discard,
     handled |-> IF packet.type = "method" THEN s.handlers[packet.method] ELSE 0,
     serviceID |-> packet.serviceID, re |-> packet.g.re,
     result |-> packet.result, error |-> packet.error,
     late |-> \E d \in s.dispatched :
                 Session(d) = Session(packet.g) /\ d.counter >= packet.counter]

\* a faulty dispatchIncoming: a reply is acknowledged with a reply
dispatchIncomingAcking(e, s, packet, hk) ==
    LET s1 == [s EXCEPT !.dispatched = @ \cup {Dispatch(s, packet)}] IN
    IF packet.type = "method"
    THEN IF s1.handlers[packet.method] > 0
         THEN EmitMethod(e, s1, packet, 1, hk)
         ELSE [s |-> post(e, s1, [UnknownMethod(e, packet) EXCEPT
                                    !.g.re = Invocation(packet, 0)]),
               threw |-> FALSE]
    ELSE [s |-> post(e, handleReply(s1, packet),
                     ReplyPacket(Options(e).serviceId, packet.id, Null, NoError)),
          threw |-> FALSE]

\* dispatchIncoming
dispatchIncoming(e, s, packet, hk) ==
    LET s1 == [s EXCEPT !.dispatched = @ \cup {Dispatch(s, packet)}] IN
    IF packet.type = "method"
    THEN IF s1.handlers[packet.method] > 0
         THEN EmitMethod(e, s1, packet, 1, hk)
         ELSE [s |-> post(e, s1, [UnknownMethod(e, packet) EXCEPT
                                    !.g.re = Invocation(packet, 0)]),
               threw |-> FALSE]
    ELSE [s |-> handleReply(s1, packet), threw |-> FALSE]

\* the loop of listener over the packets append released
RECURSIVE DispatchAll(_, _, _, _)
DispatchAll(e, s, list, hk) ==
    IF list = <<>> THEN s
    ELSE LET got == dispatchIncoming(e, s, Head(list), hk) IN
         IF got.threw THEN [got.s EXCEPT !.threw = @ + 1]
         ELSE DispatchAll(e, got.s, Tail(list), hk)

\* the payload a handshake signal reads the protocol version from
SignalPayload(packet) == IF packet.type = "method" THEN packet.params ELSE packet.result

\* reading a property of undefined or null throws
CanRead(v) == v.k \notin {"undefined", "null"}

\* JSON.parse: the text of an object, the text null, or no JSON at all.  The
\* value null has no property to read: isRPCMessage throws on it.
CanParse(text) == text \in {"json", "null"}

\* a faulty OriginAllowed: the origin of the event is not looked at
OriginAllowedAny(e, ev) == TRUE

OriginAllowed(e, ev) ==
    ~(Options(e).origin \notin {"undefined", ""} /\ Options(e).origin # "*"
      /\ ev.origin # Options(e).origin)

\* a faulty ServiceMatches: the serviceID is not looked at
ServiceMatchesAny(e, packet) == TRUE

ServiceMatches(e, packet) == packet.serviceID = Options(e).serviceId

Heard(s, ev, verdict) ==
    LET signal == verdict = "accepted" /\ isReadySignal(ev.data)
        last == s.lastEvent
        fresh == /\ last.verdict = "accepted"
                 /\ last.method = "ready"
                 /\ last.before > last.counter
    IN [s EXCEPT
          !.nHeard = IF verdict = "accepted" THEN @ + 1 ELSE @,
          !.lastEvent =
          [verdict |-> verdict, from |-> ev.data.g.from, n |-> ev.data.g.n,
           counter |-> ev.data.counter, method |-> ev.data.method,
           before |-> s.reorder.lastSequentialCall,
           signal |-> signal,
           version |-> IF signal THEN SignalPayload(ev.data).protocolVersion
                       ELSE "undefined",
           afterReady |-> fresh,
           readyCounter |-> IF fresh THEN last.counter ELSE -1,
           dropped |-> IF signal THEN Len(s.reorder.queue) ELSE 0]]

\* a faulty listener: a handshake signal leaves callCounter as it is
listenerKeepingCounter(e, s, ev, hk) ==
    IF ~OriginAllowed(e, ev) THEN Heard(s, ev, "origin")
    ELSE IF ~CanParse(ev.text) THEN Heard(s, ev, "parse")
    ELSE LET packet == ev.data IN
    IF ev.text = "null" THEN [Heard(s, ev, "threw") EXCEPT !.threw = @ + 1]
    ELSE IF ~isRPCMessage(packet) THEN Heard(s, ev, "schema")
    ELSE IF ~ServiceMatches(e, packet) THEN Heard(s, ev, "service")
    ELSE IF isReadySignal(packet) /\ ~CanRead(SignalPayload(packet))
    THEN [Heard(s, ev, "threw") EXCEPT !.threw = @ + 1]
    ELSE LET s0 == Heard(s, ev, "accepted")
             s1 == IF isReadySignal(packet)
                   THEN [s0 EXCEPT
                           !.remoteProtocolVersion = SignalPayload(packet).protocolVersion,
                           !.resetAt = s.nSent,
                           !.reorder = reset(@, packet.counter),
                           !.epoch = @ + 1,
                           !.accepted = @ + 1]
                   ELSE s0
             got == append(s1.reorder, packet)
         IN DispatchAll(e, [s1 EXCEPT !.reorder = got.reorder], got.list, hk)

\* a faulty listener: a handshake signal sets the baseline of the reorder
\* buffer and keeps its pending queue
listenerKeepingQueue(e, s, ev, hk) ==
    IF ~OriginAllowed(e, ev) THEN Heard(s, ev, "origin")
    ELSE IF ~CanParse(ev.text) THEN Heard(s, ev, "parse")
    ELSE LET packet == ev.data IN
    IF ev.text = "null" THEN [Heard(s, ev, "threw") EXCEPT !.threw = @ + 1]
    ELSE IF ~isRPCMessage(packet) THEN Heard(s, ev, "schema")
    ELSE IF ~ServiceMatches(e, packet) THEN Heard(s, ev, "service")
    ELSE IF isReadySignal(packet) /\ ~CanRead(SignalPayload(packet))
    THEN [Heard(s, ev, "threw") EXCEPT !.threw = @ + 1]
    ELSE LET s0 == Heard(s, ev, "accepted")
             s1 == IF isReadySignal(packet)
                   THEN [s0 EXCEPT
                           !.remoteProtocolVersion = SignalPayload(packet).protocolVersion,
                           !.resetAt = s.nSent,
                           !.callCounter = 0,
                           !.reorder = [@ EXCEPT !.lastSequentialCall = packet.counter],
                           !.epoch = @ + 1,
                           !.accepted = @ + 1]
                   ELSE s0
             got == append(s1.reorder, packet)
         IN DispatchAll(e, [s1 EXCEPT !.reorder = got.reorder], got.list, hk)

\* listener: the handler of a message event
listener(e, s, ev, hk) ==
    IF ~OriginAllowed(e, ev) THEN Heard(s, ev, "origin")
    ELSE IF ~CanParse(ev.text) THEN Heard(s, ev, "parse")
    ELSE LET packet == ev.data IN
    IF ev.text = "null" THEN [Heard(s, ev, "threw") EXCEPT !.threw = @ + 1]
    ELSE IF ~isRPCMessage(packet) THEN Heard(s, ev, "schema")
    ELSE IF ~ServiceMatches(e, packet) THEN Heard(s, ev, "service")
    ELSE IF isReadySignal(packet) /\ ~CanRead(SignalPayload(packet))
    THEN [Heard(s, ev, "threw") EXCEPT !.threw = @ + 1]
    ELSE LET s0 == Heard(s, ev, "accepted")
             s1 == IF isReadySignal(packet)
                   THEN [s0 EXCEPT
                           !.remoteProtocolVersion = SignalPayload(packet).protocolVersion,
                           !.callCounter = 0,
                           !.resetAt = s.nSent,
                           !.reorder = reset(@, packet.counter),
                           !.epoch = @ + 1,
                           !.accepted = @ + 1]
                   ELSE s0
             got == append(s1.reorder, packet)
         IN DispatchAll(e, [s1 EXCEPT !.reorder = got.reorder], got.list, hk)

\* a faulty destroy: the listener stays subscribed
destroyListening(s) == s

\* destroy: unsubscribe
destroy(s) == [s EXCEPT !.life = "destroyed"]

(***************************************************************************)
(* State.                                                                  *)
(***************************************************************************)
VARIABLES
    eng,     \* the engine of each window slot
    net,     \* the message events posted and not yet delivered
    used,    \* how many calls, exposes and restarts user code has made
    rb,      \* a lone Reorder buffer
    feed,    \* the packets still to be appended to rb, in arrival order
    run,     \* the packets of the run, in counter order
    out      \* the lists append returned for rb, concatenated

vars == <<eng, net, used, rb, feed, run, out>>

sysVars == <<eng, net, used>>
reorderVars == <<rb, feed, run, out>>

Range(f) == {f[i] : i \in DOMAIN f}

(***************************************************************************)
(* The system: engines constructed, used and destroyed by user code, and   *)
(* message events delivered one at a time, in any order.                   *)
(***************************************************************************)
Users == {"A", "B"}

Init ==
    /\ eng = [e \in Engines |-> NoEngine]
    /\ net = {}
    /\ used = 0
    /\ rb = NewReorder
    /\ feed = <<>>
    /\ run = <<>>
    /\ out = <<>>

\* what a step of engine e leaves: its state, and its posts on the way
Step(e, s) ==
    /\ eng' = [eng EXCEPT ![e] = [s EXCEPT !.outbox = <<>>]]
    /\ net' = net \cup Range(s.outbox)

\* user code acts, within the bound
User ==
    /\ used < MaxUser
    /\ used' = used + 1

\* new RPC(options) in the windows of the two applications that talk
Construct(e) ==
    /\ eng[e].life = "none"
    /\ Step(e, constructor(e, 1))
    /\ UNCHANGED <<used, reorderVars>>

\* new RPC(options) of another application on the same transport
ConstructOther(e) ==
    /\ eng[e].life = "none"
    /\ User
    /\ Step(e, constructor(e, 1))
    /\ UNCHANGED reorderVars

\* the window reloads: its engine and its pending work are gone, a new engine
\* is constructed
Restart(e) ==
    /\ eng[e].life # "none"
    /\ User
    /\ Step(e, constructor(e, eng[e].inc + 1))
    /\ UNCHANGED reorderVars

\* rpc.call(method, params, waitForReply)
Call(e, method, waitForReply) ==
    /\ eng[e].life = "live"
    /\ User
    /\ Step(e, call(e, eng[e], method, Obj("x"), waitForReply))
    /\ UNCHANGED reorderVars

\* rpc.expose(method, handler)
Expose(e, method) ==
    /\ eng[e].life = "live"
    /\ User
    /\ Step(e, expose(eng[e], method))
    /\ UNCHANGED reorderVars

\* rpc.destroy()
Destroy(e) ==
    /\ eng[e].life = "live"
    /\ User
    /\ Step(e, [destroy(eng[e]) EXCEPT !.gone = TRUE])
    /\ UNCHANGED reorderVars

Listening(w) == {e \in Engines : Options(e).receiver = w /\ eng[e].life = "live"}

\* promise reactions run before the next message event of the window
Settled(w) ==
    \A e \in Engines : Options(e).receiver = w => \A t \in eng[e].tasks : ~t.sync

\* a message event: every engine listening in the window hears it
Deliver(ev, hk) ==
    /\ ev \in net
    /\ Settled(ev.to)
    /\ LET heard == [e \in Listening(ev.to) |-> listener(e, eng[e], ev, hk)] IN
        /\ eng' = [e \in Engines |->
                     IF e \in Listening(ev.to)
                     THEN [heard[e] EXCEPT !.outbox = <<>>] ELSE eng[e]]
        /\ net' = (net \ {ev})
                    \cup UNION {Range(heard[e].outbox) : e \in Listening(ev.to)}
    /\ UNCHANGED <<used, reorderVars>>

\* the kinds of handler a message event can meet
KindsAt(w) ==
    IF \E e \in Listening(w), m \in UserMethods : eng[e].handlers[m] > 0
    THEN HandlerKinds ELSE {"return"}

\* the end of a handler's promise chain: emit sendReply, post the reply.  The
\* chains of handlers that finished at once end in the order they began.
Reply(e, t) ==
    /\ t \in eng[e].tasks
    /\ t.sync => \A u \in eng[e].tasks : u.sync => t.ord <= u.ord
    /\ Step(e, post(e, [eng[e] EXCEPT !.tasks = @ \ {t}], t.packet))
    /\ UNCHANGED <<used, reorderVars>>

\* the transport delivers a posted message
Delivery == \E ev \in net : \E hk \in KindsAt(ev.to) : Deliver(ev, hk)

\* the promise reactions of a handler that is done run
Reaction == \E e \in Engines : \E t \in eng[e].tasks : t.sync /\ Reply(e, t)

Next ==
    \/ \E e \in Users : Construct(e)
    \/ \E e \in Engines \ Users : ConstructOther(e)
    \/ \E e \in Users : Restart(e)
    \/ \E e \in Users, w \in BOOLEAN : Call(e, "foo", w)
    \/ \E e \in Users : Expose(e, "foo")
    \/ \E e \in Engines : Destroy(e)
    \/ \E ev \in net : \E hk \in KindsAt(ev.to) : Deliver(ev, hk)
    \/ \E e \in Engines : \E t \in eng[e].tasks : Reply(e, t)

Spec == Init /\ [][Next]_vars

\* the system with the smaller budget of user actions
Live == used' <= MaxLiveUser

NextLive ==
    \/ \E e \in Users : Construct(e)
    \/ \E e \in Engines \ Users : ConstructOther(e) /\ Live
    \/ \E e \in Users : Restart(e) /\ Live
    \/ \E e \in Users, w \in BOOLEAN : Call(e, "foo", w) /\ Live
    \/ \E e \in Users : Expose(e, "foo") /\ Live
    \/ \E e \in Engines : Destroy(e) /\ Live
    \/ \E ev \in net : \E hk \in KindsAt(ev.to) : Deliver(ev, hk)
    \/ \E e \in Engines : \E t \in eng[e].tasks : Reply(e, t)

\* the transport delivers every message, the event loop runs every reaction
SpecLive ==
    Init /\ [][NextLive]_vars /\ WF_vars(Delivery) /\ WF_vars(Reaction)

(***************************************************************************)
(* One engine serves the other: B exposes foo, A calls it.  No reload, no  *)
(* destroy and no other application, so that user code can do more.        *)
(***************************************************************************)
\* rpc.expose("foo", handler) on B
ServerExpose ==
    /\ eng["B"].life = "live"
    /\ used < MaxServeUser
    /\ used' = used + 1
    /\ Step("B", expose(eng["B"], "foo"))
    /\ UNCHANGED reorderVars

\* rpc.call("foo", params, waitForReply) on A
ClientCall(waitForReply) ==
    /\ eng["A"].life = "live"
    /\ used < MaxServeUser
    /\ used' = used + 1
    /\ Step("A", call("A", eng["A"], "foo", Obj("x"), waitForReply))
    /\ UNCHANGED reorderVars

NextServe ==
    \/ \E e \in Users : Construct(e)
    \/ ServerExpose
    \/ \E w \in BOOLEAN : ClientCall(w)
    \/ \E ev \in net : \E hk \in KindsAt(ev.to) : Deliver(ev, hk)
    \/ \E e \in Engines : \E t \in eng[e].tasks : Reply(e, t)

SpecServe == Init /\ [][NextServe]_vars

(***************************************************************************)
(* Both engines call: B exposes foo, then A and B call foo and wait for    *)
(* the reply, so that the replies of B's handler and B's own calls mix.    *)
(***************************************************************************)
\* rpc.expose("foo", handler) on B, before any call
DuplexExpose ==
    /\ used = 0
    /\ ServerExpose

\* rpc.call("foo", params) on either engine
DuplexCall(e) ==
    /\ used > 0
    /\ used < MaxServeUser
    /\ eng[e].life = "live"
    /\ used' = used + 1
    /\ Step(e, call(e, eng[e], "foo", Obj("x"), TRUE))
    /\ UNCHANGED reorderVars

NextDuplex ==
    \/ \E e \in Users : Construct(e)
    \/ DuplexExpose
    \/ \E e \in Users : DuplexCall(e)
    \/ \E ev \in net : \E hk \in KindsAt(ev.to) : Deliver(ev, hk)
    \/ \E e \in Engines : \E t \in eng[e].tasks : Reply(e, t)

SpecDuplex == Init /\ [][NextDuplex]_vars

(***************************************************************************)
(* Noise: another script posts a message to a window of the two engines.   *)
(***************************************************************************)
NoiseKinds ==
    {"garbage", "null", "potato", "noCounter", "noParams", "wrongOrigin",
     "wrongService", "errorNull", "errorAbsent"}

\* the origin of the window an engine of window w talks to
PeerOrigin(w) == WindowOrigin(IF w = "W1" THEN "W2" ELSE "W1")

\* the message event of a kind of noise; but for what the kind spoils it is
\* a "ready" call of service foo from the peer's origin.  The kinds errorNull
\* and errorAbsent are the failed reply to a "ready" call, as a peer without a
\* "ready" handler or with one that fails sends it: a reply to id -1 with an
\* error and a result that is null, or with no result.
Noise(w, kind) ==
    LET ready == [MethodPacket("foo", magicReadyCallId, "ready", Version("9.9"), FALSE)
                    EXCEPT !.counter = 0,
                           !.g = [NoGhost EXCEPT !.from = kind]]
        data == CASE kind = "potato" -> [ready EXCEPT !.type = "undefined",
                                                        !.method = "",
                                                        !.serviceID = "undefined",
                                                        !.counter = NoCounter]
                  [] kind = "noCounter" -> [ready EXCEPT !.counter = NoCounter]
                  [] kind = "noParams" -> [ready EXCEPT !.params = Undefined]
                  [] kind = "wrongService" -> [ready EXCEPT !.serviceID = "baz"]
                  [] kind \in {"errorNull", "errorAbsent"} ->
                        [ReplyPacket("foo", magicReadyCallId,
                                     IF kind = "errorNull" THEN Null ELSE Undefined,
                                     WireError(0, "boom", "undefined"))
                           EXCEPT !.counter = 0,
                                  !.g = [NoGhost EXCEPT !.from = kind]]
                  [] OTHER -> ready
    IN [to |-> w,
        origin |-> IF kind = "wrongOrigin" THEN "evil.example" ELSE PeerOrigin(w),
        text |-> IF kind \in {"garbage", "null"} THEN kind ELSE "json",
        data |-> data]

\* window.postMessage by another script
Inject(w, kind) ==
    /\ User
    /\ net' = net \cup {Noise(w, kind)}
    /\ UNCHANGED <<eng, reorderVars>>

NextNoise ==
    \/ \E e \in Users : Construct(e)
    \/ \E w \in {"W1", "W2"}, kind \in NoiseKinds : Inject(w, kind)
    \/ \E e \in Users, w \in BOOLEAN : Call(e, "foo", w)
    \/ \E ev \in net : \E hk \in KindsAt(ev.to) : Deliver(ev, hk)
    \/ \E e \in Engines : \E t \in eng[e].tasks : Reply(e, t)

SpecNoise == Init /\ [][NextNoise]_vars

(***************************************************************************)
(* A lone Reorder buffer fed a permutation of a contiguous run of counters *)
(* that starts at lastSequentialCall + 1.                                  *)
(***************************************************************************)
PacketKinds == {"ready", "foo", "reply"}

KindPacket(kind, counter) ==
    LET p == CASE kind = "ready" ->
                    MethodPacket("foo", magicReadyCallId, "ready", Version("1.0"), FALSE)
               [] kind = "foo" -> MethodPacket("foo", counter, "foo", Obj("x"), FALSE)
               [] OTHER -> ReplyPacket("foo", counter, Obj("y"), NoError)
    IN [p EXCEPT !.counter = counter]

Orders(n) == {f \in [1..n -> 1..n] : \A i, j \in 1..n : f[i] = f[j] => i = j}

ReorderInit ==
    \E base \in -1..MaxBase, n \in 1..MaxRun :
    \E kind \in [1..n -> PacketKinds], order \in Orders(n) :
        /\ rb = [lastSequentialCall |-> base, queue |-> <<>>]
        /\ run = [i \in 1..n |-> KindPacket(kind[i], base + i)]
        /\ feed = [i \in 1..n |-> KindPacket(kind[order[i]], base + order[i])]
        /\ out = <<>>
        /\ eng = [e \in Engines |-> NoEngine]
        /\ net = {}
        /\ used = 0

ReorderAppend ==
    /\ feed # <<>>
    /\ LET got == append(rb, Head(feed)) IN
        /\ rb' = got.reorder
        /\ out' = out \o got.list
    /\ feed' = Tail(feed)
    /\ UNCHANGED <<run, sysVars>>

ReorderNext == ReorderAppend

SpecReorder == ReorderInit /\ [][ReorderNext]_vars

\* no packet of the run above its lowest counter is a "ready" method call
NoReadyInside ==
    \A i \in 2..Len(run) : ~(run[i].type = "method" /\ run[i].method = "ready")

MaxAppends == 4
MaxCounter == 3

AppendInit ==
    \E base \in -1..MaxBase :
        /\ rb = [lastSequentialCall |-> base, queue |-> <<>>]
        /\ run = <<>>
        /\ feed = <<>>
        /\ out = <<>>
        /\ eng = [e \in Engines |-> NoEngine]
        /\ net = {}
        /\ used = 0

\* reorder.append(packet); the packet is known by its place in the run
AppendAny(kind, counter) ==
    /\ Len(run) < MaxAppends
    /\ LET packet == [KindPacket(kind, counter) EXCEPT !.g.n = Len(run) + 1]
           got == append(rb, packet)
       IN /\ rb' = got.reorder
          /\ out' = out \o got.list
          /\ run' = Append(run, packet)
    /\ UNCHANGED <<feed, sysVars>>

AppendNext == \E kind \in PacketKinds, counter \in 0..MaxCounter : AppendAny(kind, counter)

SpecAppend == AppendInit /\ [][AppendNext]_vars

\* C23: whatever the counters appended (repeated, stale, far ahead), no packet
\* is returned by append twice: each appended packet is in at most one of the
\* lists append returned, once.
C23_NoPacketReleasedTwice ==
    \A i, j \in 1..Len(out) : out[i].g.n = out[j].g.n => i = j

\* four packets were appended, two of them with the same counter and one
\* after it was queued, and all four have been returned
C23_Witness ==
    /\ Len(run) = 4 /\ Len(out) = 4
    /\ \E i, j \in 1..4 : i < j /\ run[i].counter = run[j].counter
    /\ \E i, j \in 1..4 : i < j /\ out[i].g.n > out[j].g.n

\* C28: in every state of the buffer the queue is sorted by ascending counter
\* and every queued packet has a counter above lastSequentialCall + 1.
C28_QueueSortedAndAhead ==
    /\ \A i, j \in 1..Len(rb.queue) :
          i < j => rb.queue[i].counter <= rb.queue[j].counter
    /\ \A i \in 1..Len(rb.queue) :
          rb.queue[i].counter > rb.lastSequentialCall + 1

\* three packets wait in the queue, two of them with the same counter, after
\* a "ready" call moved the baseline
C28_Witness ==
    /\ Len(rb.queue) = 3
    /\ rb.queue[1].counter = rb.queue[2].counter
    /\ rb.queue[3].counter > rb.queue[2].counter
    /\ \E i \in 1..Len(out) : out[i].method = "ready"

(***************************************************************************)
(* Properties of the system.                                               *)
(***************************************************************************)
Built == {e \in Engines : eng[e].life # "none"}

\* the promise of engine e that the dispatched reply d answers, if any
Answered(e, d) ==
    {p \in eng[e].promises :
        d.type = "reply" /\ d.re # <<>> /\ d.re[1] = e /\ d.re[2] = eng[e].inc
        /\ d.re[3] = p.h}

\* promise p ended the way the reply d says
SettledBy(p, d) ==
    IF d.error.k = "object"
    THEN p.state = "rejected" /\ p.error = objToError(d.error)
    ELSE p.state = "resolved" /\ p.value = d.result

\* C1: the packets of one sender session (one run of the sender's counter
\* between resets) are dispatched in strictly increasing counter order, whatever
\* the order of delivery: no packet is dispatched after one of its session that
\* has a higher counter.
C1_DispatchedInCounterOrder ==
    \A e \in Engines : \A d \in eng[e].dispatched : ~d.late

\* C3: a call that awaits its reply and whose reply is dispatched is resolved
\* with the reply's result, or rejected with the reply's code, message and path.
C3_ReplySettlesItsCall ==
    \A e \in Engines : \A d \in eng[e].dispatched : \A p \in Answered(e, d) :
        \E d2 \in eng[e].dispatched : p \in Answered(e, d2) /\ SettledBy(p, d2)

\* C4: no two outstanding calls of an engine share an id.
C4_OnePendingCallPerId ==
    \A e \in Engines : \A p, q \in eng[e].promises :
        (p.state = "pending" /\ q.state = "pending" /\ p.id = q.id) => p = q

\* C5: every run of an exposed handler for a call that is not discarded ends
\* in exactly one reply carrying the call's id: until the handler is done the
\* reply is owed, and after that one reply has been posted, never two.
C5_OneReplyPerInvocation ==
    \A e \in Engines : \A i \in eng[e].invoked :
        ~i.discard =>
            LET owed == {t \in eng[e].tasks : t.packet.g.re = i.inv}
                posted == {r \in eng[e].replies : r.inv = i.inv}
            IN /\ Cardinality(owed) + Cardinality(posted) = 1
               /\ \A t \in owed : t.packet.id = i.id
               /\ \A r \in posted : r.id = i.id

\* C6: an engine dispatches no packet of another service identity, and an
\* engine that has only heard other services has invoked no handler, settled
\* no call, is not ready, knows no remote version and has posted no reply.
C6_ServicesAreScoped ==
    \A e \in Engines :
        /\ \A d \in eng[e].dispatched : d.serviceID = Options(e).serviceId
        /\ (\A f \in Engines \ {e} : Options(f).serviceId # Options(e).serviceId)
            => /\ eng[e].dispatched = {}
               /\ eng[e].invoked = {}
               /\ eng[e].tasks = {}
               /\ eng[e].replies = {}
               /\ ~eng[e].isReady
               /\ eng[e].remoteProtocolVersion = "undefined"
               /\ \A p \in eng[e].promises : p.state = "pending"

\* the other application has heard a packet of "foo", and an engine of "foo" has
\* heard a packet of the other application
C6_Witness ==
    /\ eng["C"].lastEvent.verdict = "service"
    /\ eng["A"].lastEvent.verdict = "service"

\* C7: once both engines of a service are constructed, both become ready
\* (unless user code destroys one first).
Talking == eng["A"].life = "live" /\ eng["B"].life = "live"

C7_BothBecomeReady ==
    Talking ~> (~Talking \/ (eng["A"].isReady /\ eng["B"].isReady))

\* both engines are constructed, talking, and ready
C7_Witness ==
    /\ Talking
    /\ eng["A"].isReady /\ eng["B"].isReady
    /\ eng["A"].accepted > 0 /\ eng["B"].accepted > 0

C9_SignalSetsReadyAndVersion ==
    \A e \in Built :
        /\ eng[e].accepted = 0 => eng[e].remoteProtocolVersion = "undefined"
        /\ eng[e].accepted > 0 => eng[e].isReady
        /\ eng[e].lastEvent.signal =>
             /\ eng[e].isReady
             /\ eng[e].remoteProtocolVersion = eng[e].lastEvent.version

\* an engine was made ready by a reply to id -1 carrying "1.1"
C9_Witness ==
    \E e \in Built :
        /\ eng[e].lastEvent.signal
        /\ eng[e].lastEvent.method = ""
        /\ eng[e].accepted = 1
        /\ eng[e].remoteProtocolVersion = "1.1"

\* C10: after a "ready" call with counter c arrives while lastSequentialCall is
\* above c, lastSequentialCall is c; and the packet with counter c + 1 that
\* arrives next is dispatched at once, not queued.
C10_FreshReadyResetsBaseline ==
    \A e \in Built :
        LET ev == eng[e].lastEvent IN
        /\ (ev.verdict = "accepted" /\ ev.method = "ready" /\ ev.before > ev.counter)
            => eng[e].reorder.lastSequentialCall = ev.counter
        /\ (ev.verdict = "accepted" /\ ev.afterReady
              /\ ev.counter = ev.readyCounter + 1)
            => /\ \E d \in eng[e].dispatched : d.from = ev.from /\ d.n = ev.n
               /\ \A i \in DOMAIN eng[e].reorder.queue :
                     eng[e].reorder.queue[i].g.n # ev.n

\* a "ready" call arrived below the baseline and the packet one above it came next
C10_Witness ==
    \E e \in Built :
        LET ev == eng[e].lastEvent IN
        /\ ev.verdict = "accepted"
        /\ ev.afterReady
        /\ ev.counter = ev.readyCounter + 1
        /\ ev.before = ev.readyCounter
\* the packets posted in a step
Posted == {ev.data : ev \in net' \ net}

IsReadyReply(p) == p.type = "reply" /\ p.id = magicReadyCallId

Invocations(e, d) ==
    {i \in eng[e].invoked : SubSeq(i.inv, 1, 3) = <<d.from, d.inc, d.n>>}

Owed(e, d) ==
    {t \in eng[e].tasks : SubSeq(t.packet.g.re, 1, 3) = <<d.from, d.inc, d.n>>}

RepliesTo(e, d) ==
    {r \in eng[e].replies : SubSeq(r.inv, 1, 3) = <<d.from, d.inc, d.n>>}

MethodsDispatched(e) == {d \in eng[e].dispatched : d.type = "method"}

C13_DiscardedUnknownDropped ==
    \A e \in Engines : \A d \in MethodsDispatched(e) :
        (d.discard /\ d.handled = 0) => RepliesTo(e, d) = {}

\* C14: a discarded call dispatched where its method is exposed runs the
\* handler, and no reply is owed or posted for it, whatever the handler does.
C14_DiscardedCallNeverAnswered ==
    \A e \in Engines : \A d \in MethodsDispatched(e) :
        (d.discard /\ d.handled > 0) =>
            /\ \E i \in Invocations(e, d) : i.inv[4] = 1 /\ i.discard
            /\ Owed(e, d) = {}
            /\ RepliesTo(e, d) = {}

\* a discarded call ran an exposed handler, which threw
C14_Witness ==
    \E e \in Engines : \E d \in MethodsDispatched(e) :
        /\ d.discard /\ d.handled > 0
        /\ Invocations(e, d) # {}
        /\ eng[e].threw > 0

\* C15: a method has one handler, the one exposed last: a dispatched call runs
\* only that one and is answered once.
C15_LastExposeReplaces ==
    \A e \in Engines : \A d \in MethodsDispatched(e) :
        (~d.discard /\ d.method = "foo" /\ d.handled > 0) =>
            /\ \A i \in Invocations(e, d) : i.inv[4] = d.handled
            /\ Cardinality(Owed(e, d)) + Cardinality(RepliesTo(e, d)) <= 1
\* C16: no payload makes the listener raise: unparseable text, JSON that is no
\* object, an envelope with missing fields and a handshake signal without
\* params are all dropped.
C16_NoPayloadRaises ==
    \A e \in Built : eng[e].lastEvent.verdict # "threw"

\* the state of an engine but for the history kept of what it heard
Core(s) ==
    [callCounter |-> s.callCounter, reorder |-> s.reorder, calls |-> s.calls,
     isReady |-> s.isReady, remoteProtocolVersion |-> s.remoteProtocolVersion,
     handlers |-> s.handlers, tasks |-> s.tasks, promises |-> s.promises,
     nSent |-> s.nSent, epoch |-> s.epoch, accepted |-> s.accepted,
     dispatched |-> s.dispatched, invoked |-> s.invoked, replies |-> s.replies]

\* the transport-level rejects: the origin differs from a configured origin
\* other than "*", the text is no JSON, the envelope has no type method or
\* reply with a numeric counter, or the serviceID is another
Rejectable(e, ev) ==
    \/ /\ Options(e).origin \notin {"undefined", "", "*"}
       /\ ev.origin # Options(e).origin
    \/ ev.text = "garbage"
    \/ /\ ev.text = "json"
       /\ \/ ev.data.type \notin {"method", "reply"}
          \/ ev.data.counter = NoCounter
          \/ ev.data.serviceID # Options(e).serviceId

\* C19: a message event rejected at the transport level leaves the engine as
\* it was (counter, reorder baseline and queue, ledger, ready state, remote
\* version, handlers and pending replies) and makes it post nothing, even
\* when the packet is shaped as a handshake signal.
C19_RejectedLeavesStateAlone ==
    [][\A ev \in net \ net' : \A e \in Listening(ev.to) :
         Rejectable(e, ev) =>
            /\ Core(eng'[e]) = Core(eng[e])
            /\ \A p \in Posted : p.g.from # e]_vars

\* a ready engine that has posted since its handshake has heard a "ready" call
\* from a foreign origin and has rejected it
C19_Witness ==
    \E e \in Built :
        /\ eng[e].lastEvent.verdict = "origin"
        /\ eng[e].lastEvent.method = "ready"
        /\ eng[e].isReady
        /\ eng[e].callCounter = 1
        /\ eng[e].remoteProtocolVersion = "1.1"
\* the replies owed and posted for an invocation, as they go on the wire
Answers(e, inv) ==
    {[id |-> t.packet.id, result |-> JsonValue(t.packet.result),
      error |-> t.packet.error] : t \in {u \in eng[e].tasks : u.packet.g.re = inv}}
    \cup {[id |-> r.id, result |-> r.result, error |-> r.error]
           : r \in {q \in eng[e].replies : q.inv = inv}}

\* what the handlers of the model raise
RaiseKinds == {"throwRPC", "reject", "throwError", "throwUndefined"}

\* C17: when the handler of a call that is not discarded raises, the reply
\* carries an error and no result: the code, message and path of an RPCError,
\* and code 0 with the failure's description for any other failure.
C17_RaisedFailureBecomesError ==
    \A e \in Engines : \A i \in eng[e].invoked :
        (~i.discard /\ i.kind \in RaiseKinds) =>
            /\ Answers(e, i.inv) # {}
            /\ \A r \in Answers(e, i.inv) :
                  /\ r.result = Undefined
                  /\ r.error.k = "object"
                  /\ i.kind = "throwRPC" =>
                        /\ r.error.code = 1234 /\ r.error.message = "oh no!"
                        /\ r.error.path = "undefined"
                  /\ i.kind = "reject" =>
                        /\ r.error.code = 1234 /\ r.error.message = "oh no!"
                        /\ r.error.path = "a.b"
                  /\ i.kind \in {"throwError", "throwUndefined"} =>
                        /\ r.error.code = 0 /\ r.error.message # ""

\* C18: no failure of an exposed handler leaves the listener.
C18_HandlerFailuresCaught ==
    \A e \in Built : eng[e].threw = 0
\* C20: destroy() settles no call, and nothing reaches the engine afterwards:
\* the calls pending before destroy() are pending after it, and a destroyed
\* engine hears, dispatches and settles nothing more.
C20_DestroyAbandonsCalls ==
    [][\A e \in Engines :
         (eng'[e].gone /\ eng'[e].inc = eng[e].inc) =>
            /\ eng'[e].promises = eng[e].promises
            /\ eng'[e].calls = eng[e].calls
            /\ eng[e].gone =>
                  /\ eng'[e].lastEvent = eng[e].lastEvent
                  /\ eng'[e].dispatched = eng[e].dispatched
                  /\ eng'[e].invoked = eng[e].invoked
                  /\ eng'[e].reorder = eng[e].reorder
                  /\ eng'[e].isReady = eng[e].isReady]_vars

\* an engine was destroyed with a call pending; its peer has dispatched the
\* call and posted the reply, and the reply has been delivered
C20_Witness ==
    \E e, f \in Users : \E p \in eng[e].promises : \E r \in eng[f].replies :
        /\ eng[e].gone
        /\ p.state = "pending" /\ p.id # magicReadyCallId
        /\ [id |-> p.id, h |-> p.h] \in eng[e].calls
        /\ r.inv = <<e, eng[e].inc, p.h, 0>>
        /\ \A ev \in net : ~(ev.data.g.from = f /\ ev.data.g.n = r.n)

(***************************************************************************)
(* Delivery of every packet.                                               *)
(***************************************************************************)
\* both engines are the ones first constructed, and both listen
Steady == Talking /\ eng["A"].inc = 1 /\ eng["B"].inc = 1

\* nothing is on its way, and every packet a listener let through has been
\* dispatched
AllDispatched ==
    /\ net = {}
    /\ \A e \in Users : Cardinality(eng[e].dispatched) = eng[e].nHeard

\* C21: with both engines listening, every packet an engine sends is
\* eventually dispatched by its peer (unless an engine is destroyed or
\* reloaded first), whatever the order of delivery around the handshake.
C21_EverySentPacketDispatched ==
    Steady ~> (~Steady \/ AllDispatched)

\* C22: a reply to the sentinel id -1 makes the engine ready whether it
\* carries a result or an error, also when the result of the failed reply is
\* null or absent.
C22_FailedReadyReplySetsReady ==
    \A e \in Built :
        eng[e].lastEvent.from \in {"errorNull", "errorAbsent"} => eng[e].isReady

\* packet p is the one the dispatch record d was made of
Same(d, p) == d.from = p.g.from /\ d.inc = p.g.inc /\ d.n = p.g.n

C25_OneCounterPerPacket ==
    [][\A e \in Engines :
         LET mine == {p \in Posted : p.g.from = e}
             start == IF \/ eng'[e].inc # eng[e].inc
                         \/ eng'[e].accepted > eng[e].accepted
                      THEN 0 ELSE eng[e].callCounter
         IN /\ {p.counter : p \in mine} = start..(eng'[e].callCounter - 1)
            /\ Cardinality(mine) = eng'[e].callCounter - start]_vars

\* an engine that has made a call of its own has posted after it, in the same
\* run of its counter, the reply of an asynchronous handler
C25_Witness ==
    \E e \in Users : \E p \in eng[e].promises : \E r \in eng[e].replies :
    \E i \in eng[e].invoked :
        /\ p.id # magicReadyCallId
        /\ i.inv = r.inv /\ i.kind = "async" /\ i.method = "foo"
        /\ r.n > p.h
        /\ p.h > eng[e].resetAt

\* C26: the sentinel id never collides with the id of a call: every call to a
\* method other than "ready" is posted with the counter it is stamped with as
\* its id, which is 0 or more; a call to "ready" is posted with id -1; and the
\* ledger entry under -1 is the one of the handshake call.
C26_SentinelNeverCollides ==
    [][/\ \A p \in Posted :
             p.type = "method" =>
                IF p.method = "ready" THEN p.id = magicReadyCallId
                ELSE p.id = p.counter /\ p.id >= 0
       /\ \A e \in Engines : \A c \in eng'[e].calls :
             c.id = magicReadyCallId <=> c.h = ReadyPromise]_vars

\* an engine waits both for the answer to its handshake call, under -1, and
\* for the answer to a foo call, under the counter of that call
C26_Witness ==
    \E e \in Users : \E c, d \in eng[e].calls : \E ev \in net :
        /\ c.id = magicReadyCallId /\ d.id >= 0
        /\ ev.data.g.from = e /\ ev.data.g.n = d.h
        /\ ev.data.method = "foo" /\ ev.data.id = d.id
        /\ ev.data.counter = d.id

\* C27: a ledger entry is fired at most once and is removed when it is fired:
\* a call that has ended stays as it ended, a call ends only by a dispatched
\* reply with the id of its entry, and its entry is gone afterwards.  A reply
\* dispatched under an id that has no ledger entry ends no call, leaves the
\* ledger as it is and makes the engine post nothing.
C27_ReplyFiresEntryOnce ==
    [][\A e \in Engines :
         eng'[e].inc = eng[e].inc =>
            LET new == eng'[e].dispatched \ eng[e].dispatched
                ended == {p \in eng'[e].promises :
                             p.state # "pending" /\ p \notin eng[e].promises}
            IN /\ \A p \in eng[e].promises :
                     p.state # "pending" => p \in eng'[e].promises
               /\ \A p \in ended :
                     /\ [id |-> p.id, h |-> p.h] \in eng[e].calls
                     /\ [id |-> p.id, h |-> p.h] \notin eng'[e].calls
                     /\ \E d \in new : d.type = "reply" /\ d.id = p.id
               /\ (/\ new # {}
                   /\ \A d \in new :
                         d.type = "reply" /\ \A c \in eng[e].calls : c.id # d.id)
                    => /\ eng'[e].promises = eng[e].promises
                       /\ eng'[e].calls = eng[e].calls
                       /\ \A p \in Posted : p.g.from # e]_vars

\* an engine that waits for the answer to a call has dispatched a reply whose
\* id has no ledger entry: the error reply to a call it made with discard set
C27_Witness ==
    \E e \in Users : \E d \in eng[e].dispatched : \E c \in eng[e].calls :
        /\ eng[e].lastEvent.verdict = "accepted"
        /\ eng[e].lastEvent.n = d.n /\ eng[e].lastEvent.from = d.from
        /\ d.type = "reply" /\ d.id # magicReadyCallId
        /\ \A k \in eng[e].calls : k.id # d.id
        /\ \A p \in eng[e].promises : p.id # d.id

\* nothing is on its way and no reply is owed
Quiet == net = {} /\ \A e \in Engines : eng[e].tasks = {}

\* the "ready" calls engine e has accepted
ReadyCalls(e) == {i \in eng[e].invoked : i.method = "ready"}

\* C29: the handshake quiesces.  The delivery of a reply to the sentinel id
\* makes no engine post a packet; as long as user code has not acted, an
\* engine has sent or owes one "ready" call and one reply for each "ready"
\* call it accepted, and no more; and once both engines are constructed the
\* system reaches a state with no packet in flight, unless user code acts.
C29_HandshakeQuiesces ==
    /\ [][(\E ev \in net \ net' : IsReadyReply(ev.data)) => Posted = {}]_vars
    /\ [](used = 0 =>
            \A e \in Users \cap Built :
                /\ eng[e].nSent + Cardinality(eng[e].tasks)
                      = 1 + Cardinality(ReadyCalls(e))
                /\ Cardinality(ReadyCalls(e)) <= 1)
    /\ (Talking /\ used = 0) ~> (used > 0 \/ Quiet)

\* without any act of user code both engines have sent their "ready" call and
\* their reply to the peer's, both are ready and nothing is on its way
C29_Witness ==
    /\ used = 0 /\ Talking /\ Quiet
    /\ \A e \in Users :
          /\ eng[e].nSent = 2 /\ eng[e].isReady
          /\ Cardinality(ReadyCalls(e)) = 1
          /\ Cardinality(eng[e].dispatched) = 2
====
